---- MODULE Spec2Model ----
(***************************************************************************)
(* The ping service (src/app.py) and its load-test client                  *)
(* (src/scripts/load_test.py) as one system: the client's main() validates *)
(* its arguments, run_load_test issues the probes one after another, each  *)
(* probe is answered by the service, by something else behind the URL, by  *)
(* a network fault or cut short by Ctrl-C, and analyze_results builds the  *)
(* distribution report.                                                    *)
(***************************************************************************)
EXTENDS Integers, Sequences, FiniteSets, TLC

VARIABLES
    url,                 \* args.url: the route of the service the probes hit
    nodes,               \* outcomes socket.gethostname() has on the nodes behind the URL
    foreign,             \* answers that do not come from the service (proxy pages, ...)
    num_requests,        \* args.requests
    pc,                  \* where main() is
    i,                   \* run_load_test: the loop variable
    hostnames,           \* run_load_test: hostnames
    successful_requests, \* run_load_test: successful_requests
    failed_requests,     \* run_load_test: failed_requests
    wire,                \* what requests.get() has got so far for the probe in flight
    served,              \* who answered the probe in flight, and the node's hostname lookup
    result,              \* what make_request returned to the loop
    in_flight,           \* requests.get() calls that have not returned
    issued,              \* requests.get() calls made so far
    notices,             \* the k of every "Progress: k/n" line printed
    report,              \* what analyze_results printed
    message,             \* the final line main() printed, if any
    exit_code,           \* the status main() exited with (-1: still running)
    interrupt            \* where the run was when Ctrl-C arrived

vars == <<url, nodes, foreign, num_requests, pc, i, hostnames, successful_requests,
          failed_requests, wire, served, result, in_flight, issued, notices, report,
          message, exit_code, interrupt>>

(***************************************************************************)
(* Bounds of the model.                                                    *)
(***************************************************************************)
MaxRequests == 4
MaxFairRequests == 3
MaxNonPositive == 2
MaxProgressRequests == 21
MaxLen == 3
MaxCount == 3

(***************************************************************************)
(* Numbers of the program.                                                 *)
(***************************************************************************)
HTTP_OK == 200
HTTP_NOT_FOUND == 404
HTTP_INTERNAL_ERROR == 500
ProgressEvery == 10

(***************************************************************************)
(* Python values: exceptions, dicts, JSON bodies.                          *)
(***************************************************************************)
\* JSON null, the one non-string value a "hostname" field is given here: a
\* reserved token, told apart from every string by is_str.
JNull == "<json null>"

is_str(v) == v # JNull

\* KeyboardInterrupt derives from BaseException, not from Exception: an
\* "except Exception" clause lets it through.
IsException(exc) == exc \notin {"none", "KeyboardInterrupt"}

EmptyDict == [k \in {} |-> ""]

dict_get(d, key, default) == IF key \in DOMAIN d THEN d[key] ELSE default

\* A response body: a JSON object with its fields, JSON that is no object
\* ("array"), or text that is no JSON at all ("invalid").
Body(kind, fields) == [json |-> kind, fields |-> fields]

jsonify(d) == Body("object", d)

\* What requests.get() comes to: a response, or an exception.
Response(status, body) == [exc |-> "none", status |-> status, body |-> body]

Raised(exc) == [exc |-> exc, status |-> 0, body |-> Body("none", EmptyDict)]

Pending == [exc |-> "pending", status |-> 0, body |-> Body("none", EmptyDict)]

Idle == [exc |-> "idle", status |-> 0, body |-> Body("none", EmptyDict)]

(***************************************************************************)
(* The ping service, src/app.py.                                           *)
(***************************************************************************)
\* The outcome of socket.gethostname() on a node: a name, or an OSError.
Lookup(exc, name) == [exc |-> exc, name |-> name]

\* A call that returned v, and a call that raised exc.
Returns(v) == [exc |-> "none", value |-> v]

Raises(exc) == [exc |-> exc, value |-> ""]

\* get_hostname without its try block.
get_hostname_unguarded(lk) ==
    IF lk.exc = "none" THEN Returns(lk.name) ELSE Raises(lk.exc)

get_hostname(lk) ==
    IF lk.exc = "none" THEN Returns(lk.name)
    ELSE IF IsException(lk.exc) THEN Returns("unknown")
    ELSE Raises(lk.exc)

home(lk) ==
    LET hostname == get_hostname(lk)
    IN  IF hostname.exc # "none" THEN Raised(hostname.exc)
        ELSE Response(HTTP_OK,
                 jsonify(("message" :> "I hope to be part of the Alcatraz AI DevOps team soon :)")
                         @@ ("hostname" :> hostname.value)
                         @@ ("status" :> "ready")))

ping(lk) ==
    LET hostname == get_hostname(lk)
    IN  IF hostname.exc # "none" THEN Raised(hostname.exc)
        ELSE Response(HTTP_OK,
                 jsonify(("message" :> "pong") @@ ("hostname" :> hostname.value)))

health_check == Response(HTTP_OK, jsonify("status" :> "healthy"))

not_found == Response(HTTP_NOT_FOUND, jsonify("error" :> "Not found"))

internal_error == Response(HTTP_INTERNAL_ERROR, jsonify("error" :> "Internal server error"))

\* Flask's dispatch over the routes the application registers: the view of
\* the route, the 404 handler for a route that is not registered, the 500
\* handler for a view that raised.
Routes == {"/", "/api/ping", "/health", "/missing"}

dispatch(route, lk) ==
    LET rv == CASE route = "/" -> home(lk)
                [] route = "/api/ping" -> ping(lk)
                [] route = "/health" -> health_check
                [] OTHER -> not_found
    IN  IF rv.exc # "none" THEN internal_error ELSE rv

(***************************************************************************)
(* The load-test client, src/scripts/load_test.py.                         *)
(***************************************************************************)
\* What a call of make_request comes to: (hostname, success), or an
\* exception that leaves it.
Result(hostname, success) == [exc |-> "none", hostname |-> hostname, success |-> success]

Propagates(exc) == [exc |-> exc, hostname |-> "", success |-> FALSE]

NoResult == [exc |-> "idle", hostname |-> "", success |-> FALSE]

\* The body of make_request's try block, for each way requests.get() ends:
\* response.json() raises on a body that is no JSON, and data.get raises
\* AttributeError on JSON that is no object.
try_request(got) ==
    IF got.exc # "none" THEN Propagates(got.exc)
    ELSE IF got.status = HTTP_OK THEN
        IF got.body.json = "invalid" THEN Propagates("JSONDecodeError")
        ELSE IF got.body.json # "object" THEN Propagates("AttributeError")
        ELSE Result(dict_get(got.body.fields, "hostname", "unknown"), TRUE)
    ELSE Result("error", FALSE)

\* make_request without its except clause.
make_request_no_except(got) == try_request(got)

\* make_request with a body it cannot read taken for a body without hostname.
make_request_lenient(got) ==
    LET r == try_request(got)
    IN  IF r.exc \in {"JSONDecodeError", "AttributeError"} THEN Result("unknown", TRUE)
        ELSE IF IsException(r.exc) THEN Result("error", FALSE)
        ELSE r

\* make_request with a bare "except:", which catches KeyboardInterrupt too.
make_request_catch_all(got) ==
    LET r == try_request(got)
    IN  IF r.exc # "none" THEN Result("error", FALSE) ELSE r

make_request(got) ==
    LET r == try_request(got)
    IN  IF IsException(r.exc) THEN Result("error", FALSE) ELSE r

\* The progress test on the zero-based loop variable alone: i % 10 == 0.
progress_due_zero_based(k) == k % ProgressEvery = 0

\* if (i + 1) % 10 == 0 or i == 0
progress_due(k) == (k + 1) % ProgressEvery = 0 \/ k = 0

\* The validation with < in place of <=.
invalid_requests_strict(n) == n < 0

\* if args.requests <= 0
invalid_requests(n) == n <= 0

\* A float the report prints, kept as the exact fraction num/den.
Ratio(num, den) == [num |-> num, den |-> den]

\* Python's a / b.
true_div(a, b) ==
    IF b = 0 THEN [exc |-> "ZeroDivisionError", value |-> Ratio(0, 1)]
    ELSE [exc |-> "none", value |-> Ratio(a, b)]

\* The success rate without its guard on total_requests.
success_rate_unguarded(successful, total) == true_div(successful * 100, total)

\* (successful_requests / total_requests * 100) if total_requests > 0 else 0
success_rate(successful, total) ==
    IF total > 0 THEN true_div(successful * 100, total)
    ELSE [exc |-> "none", value |-> Ratio(0, 1)]

\* A counter that records a key without adding up its occurrences.
RECURSIVE Counter_no_increment(_)
Counter_no_increment(s) ==
    IF s = <<>> THEN [k \in {} |-> 0]
    ELSE LET c == Counter_no_increment(SubSeq(s, 1, Len(s) - 1))
             x == s[Len(s)]
         IN  IF x \in DOMAIN c THEN c ELSE c @@ (x :> 1)

\* collections.Counter over a list: one pass, each element adds one to its key.
RECURSIVE Counter(_)
Counter(s) ==
    IF s = <<>> THEN [k \in {} |-> 0]
    ELSE LET c == Counter(SubSeq(s, 1, Len(s) - 1))
             x == s[Len(s)]
         IN  IF x \in DOMAIN c THEN [c EXCEPT ![x] = @ + 1] ELSE c @@ (x :> 1)

\* list(hostname_counter.keys()): the keys in the order they were first counted.
RECURSIVE counter_keys(_)
counter_keys(s) ==
    IF s = <<>> THEN <<>>
    ELSE LET front == counter_keys(SubSeq(s, 1, Len(s) - 1))
             x == s[Len(s)]
         IN  IF \E k \in 1..Len(front) : front[k] = x THEN front ELSE Append(front, x)

\* The sum of f over the keys S.
RECURSIVE SumOver(_, _)
SumOver(f, S) ==
    IF S = {} THEN 0
    ELSE LET x == CHOOSE y \in S : TRUE IN f[x] + SumOver(f, S \ {x})

\* The number of requests counted, in place of the number of keys.
available_nodes_per_request(counter) == SumOver(counter, DOMAIN counter)

\* available_nodes = len(hostname_counter)
available_nodes(counter) == Cardinality(DOMAIN counter)

\* What analyze_results printed, and the exception that ended it, if any.
Report(exc, printed, total, rate, counter, keys, available, percentages) ==
    [exc |-> exc, printed |-> printed, total_requests |-> total, success_rate |-> rate,
     hostname_counter |-> counter, node_list |-> keys, available_nodes |-> available,
     percentages |-> percentages]

NoReport == Report("idle", {}, 0, Ratio(0, 1), [k \in {} |-> 0], <<>>, 0, [k \in {} |-> 0])

analyze_results(hs, successful, failed) ==
    LET total_requests == successful + failed
        rate == success_rate(successful, total_requests)
        hostname_counter == Counter(hs)
        node_list == counter_keys(hs)
        percentage == [x \in DOMAIN hostname_counter |->
                          true_div(hostname_counter[x] * 100, successful)]
        none == [k \in {} |-> 0]
    IN  IF rate.exc # "none" THEN
            Report(rate.exc, {}, total_requests, rate.value, none, <<>>, 0, none)
        ELSE IF successful > 0 THEN
            IF \E k \in 1..Len(node_list) : ~is_str(node_list[k]) THEN
                \* ', '.join(node_list) raises TypeError on an item that is no str
                Report("TypeError", {"statistics"}, total_requests, rate.value,
                       hostname_counter, node_list, 0, none)
            ELSE IF \E x \in DOMAIN percentage : percentage[x].exc # "none" THEN
                Report("ZeroDivisionError",
                       {"statistics", "node_list", "available_nodes"}, total_requests,
                       rate.value, hostname_counter, node_list,
                       available_nodes(hostname_counter), none)
            ELSE
                Report("none",
                       {"statistics", "node_list", "available_nodes", "per_node"},
                       total_requests, rate.value, hostname_counter, node_list,
                       available_nodes(hostname_counter),
                       [x \in DOMAIN percentage |-> percentage[x].value])
        ELSE
            Report("none", {"statistics", "no_successful_requests"}, total_requests,
                   rate.value, none, <<>>, 0, none)

\* The loop body with a failed probe left out of the tally.
tally_uncounted_failure(hs, successful, failed, r) ==
    IF r.success
    THEN [hostnames |-> Append(hs, r.hostname), successful |-> successful + 1,
          failed |-> failed]
    ELSE [hostnames |-> hs, successful |-> successful, failed |-> failed]

\* The loop body after make_request returned: lines 50-54.
tally(hs, successful, failed, r) ==
    IF r.success
    THEN [hostnames |-> Append(hs, r.hostname), successful |-> successful + 1,
          failed |-> failed]
    ELSE [hostnames |-> hs, successful |-> successful, failed |-> failed + 1]

\* The except clauses of main(): both print a line and exit with status 1.
main_except(exc) ==
    /\ message' = IF exc = "KeyboardInterrupt"
                  THEN "Load test interrupted by user"
                  ELSE "Error running load test"
    /\ exit_code' = 1
    /\ pc' = "exited"

(***************************************************************************)
(* The environment: the nodes behind the URL, what else may answer.        *)
(***************************************************************************)
\* socket.gethostname() returns the node's name (the kernel lets it be
\* empty) or raises OSError.
Nodes ==
    {Lookup("none", "node-a"), Lookup("none", "node-b"), Lookup("none", ""),
     Lookup("OSError", "")}

\* Answers of something that is not the service: a proxy's error page, a
\* status-200 page that is no JSON, JSON that is no object, an object whose
\* hostname is null.
ForeignAnswers ==
    {Response(502, Body("invalid", EmptyDict)),
     Response(HTTP_OK, Body("invalid", EmptyDict)),
     Response(HTTP_OK, Body("array", EmptyDict)),
     Response(HTTP_OK, jsonify("hostname" :> JNull))}

NetworkErrors == {"ConnectionError", "Timeout"}

NoLookup == Lookup("idle", "")

NotServed == [by |-> "none", lookup |-> NoLookup]

NoInterrupt == [at |-> "none", issued |-> 0, failed |-> 0]

(***************************************************************************)
(* Initial states.                                                         *)
(***************************************************************************)
Start ==
    /\ pc = "start"
    /\ i = 0
    /\ hostnames = <<>>
    /\ successful_requests = 0
    /\ failed_requests = 0
    /\ wire = Idle
    /\ served = NotServed
    /\ result = NoResult
    /\ in_flight = 0
    /\ issued = 0
    /\ notices = <<>>
    /\ report = NoReport
    /\ message = ""
    /\ exit_code = -1
    /\ interrupt = NoInterrupt

\* main() with any request count, against any route of the service.
Init ==
    /\ num_requests \in (-MaxNonPositive)..MaxRequests
    /\ url \in Routes
    /\ nodes = Nodes
    /\ foreign = ForeignAnswers
    /\ Start

\* main() with request counts that reach the progress notices beyond the
\* first, against /api/ping with one node behind it.
InitProgress ==
    /\ num_requests \in (-MaxNonPositive)..MaxProgressRequests
    /\ url = "/api/ping"
    /\ nodes = {Lookup("none", "node-a")}
    /\ foreign = {Response(502, Body("invalid", EmptyDict))}
    /\ Start

(***************************************************************************)
(* main(): argument validation, lines 141-146, then run_load_test's        *)
(* locals, lines 39-41.                                                    *)
(***************************************************************************)
Validate ==
    /\ pc = "start"
    /\ IF invalid_requests(num_requests)
       THEN /\ message' = "Error: Number of requests must be positive"
            /\ exit_code' = 1
            /\ pc' = "exited"
            /\ UNCHANGED <<i, hostnames, successful_requests, failed_requests>>
       ELSE /\ pc' = "loop"
            /\ i' = 0
            /\ hostnames' = <<>>
            /\ successful_requests' = 0
            /\ failed_requests' = 0
            /\ UNCHANGED <<message, exit_code>>
    /\ UNCHANGED <<url, nodes, foreign, num_requests, wire, served, result, in_flight,
                   issued, notices, report, interrupt>>

(***************************************************************************)
(* run_load_test: the head of an iteration, lines 43-48: the progress      *)
(* line, then make_request calls requests.get.                             *)
(***************************************************************************)
IssueProbe ==
    /\ pc = "loop"
    /\ i < num_requests
    /\ notices' = IF progress_due(i) THEN Append(notices, i + 1) ELSE notices
    /\ wire' = Pending
    /\ in_flight' = in_flight + 1
    /\ issued' = issued + 1
    /\ pc' = "inflight"
    /\ UNCHANGED <<url, nodes, foreign, num_requests, i, hostnames, successful_requests,
                   failed_requests, served, result, report, message, exit_code,
                   interrupt>>

\* The service answers the probe: Flask dispatches the route on some node.
Serve ==
    /\ pc = "inflight"
    /\ wire = Pending
    /\ \E lk \in nodes :
          /\ wire' = dispatch(url, lk)
          /\ served' = [by |-> "service", lookup |-> lk]
    /\ UNCHANGED <<url, nodes, foreign, num_requests, pc, i, hostnames,
                   successful_requests, failed_requests, result, in_flight, issued,
                   notices, report, message, exit_code, interrupt>>

\* Something else answers the probe.
ForeignAnswer ==
    /\ pc = "inflight"
    /\ wire = Pending
    /\ \E r \in foreign : wire' = r
    /\ served' = [by |-> "foreign", lookup |-> NoLookup]
    /\ UNCHANGED <<url, nodes, foreign, num_requests, pc, i, hostnames,
                   successful_requests, failed_requests, result, in_flight, issued,
                   notices, report, message, exit_code, interrupt>>

\* The connection fails, or the timeout passes: requests.get raises.
NetworkFault ==
    /\ pc = "inflight"
    /\ wire = Pending
    /\ \E exc \in NetworkErrors : wire' = Raised(exc)
    /\ served' = [by |-> "network", lookup |-> NoLookup]
    /\ UNCHANGED <<url, nodes, foreign, num_requests, pc, i, hostnames,
                   successful_requests, failed_requests, result, in_flight, issued,
                   notices, report, message, exit_code, interrupt>>

\* make_request ends: it returns to the loop, or an exception leaves it and
\* run_load_test and reaches main()'s except clauses.
leave_make_request(r) ==
    /\ in_flight' = in_flight - 1
    /\ IF r.exc = "none"
       THEN /\ result' = r
            /\ pc' = "tally"
            /\ UNCHANGED <<message, exit_code>>
       ELSE /\ result' = NoResult
            /\ main_except(r.exc)

MakeRequestReturn ==
    /\ pc = "inflight"
    /\ wire # Pending
    /\ leave_make_request(make_request(wire))
    /\ UNCHANGED <<url, nodes, foreign, num_requests, i, hostnames, successful_requests,
                   failed_requests, wire, served, issued, notices, report, interrupt>>

\* Ctrl-C while requests.get is blocked: KeyboardInterrupt is raised there.
InterruptInFlight ==
    /\ pc = "inflight"
    /\ interrupt' = [at |-> pc, issued |-> issued, failed |-> failed_requests]
    /\ wire' = Raised("KeyboardInterrupt")
    /\ served' = [by |-> "user", lookup |-> NoLookup]
    /\ leave_make_request(make_request(Raised("KeyboardInterrupt")))
    /\ UNCHANGED <<url, nodes, foreign, num_requests, i, hostnames, successful_requests,
                   failed_requests, issued, notices, report>>

\* The rest of the loop body, lines 50-54.
Tally ==
    /\ pc = "tally"
    /\ LET t == tally(hostnames, successful_requests, failed_requests, result)
       IN  /\ hostnames' = t.hostnames
           /\ successful_requests' = t.successful
           /\ failed_requests' = t.failed
    /\ i' = i + 1
    /\ wire' = Idle
    /\ served' = NotServed
    /\ result' = NoResult
    /\ pc' = "loop"
    /\ UNCHANGED <<url, nodes, foreign, num_requests, in_flight, issued, notices, report,
                   message, exit_code, interrupt>>

\* The loop is over: run_load_test returns, lines 56-59.
ReturnResults ==
    /\ pc = "loop"
    /\ i >= num_requests
    /\ pc' = "analyze"
    /\ UNCHANGED <<url, nodes, foreign, num_requests, i, hostnames, successful_requests,
                   failed_requests, wire, served, result, in_flight, issued, notices,
                   report, message, exit_code, interrupt>>

\* main() calls analyze_results, line 155, and ends.
AnalyzeResults ==
    /\ pc = "analyze"
    /\ LET r == analyze_results(hostnames, successful_requests, failed_requests)
       IN  /\ report' = r
           /\ IF r.exc = "none"
              THEN /\ pc' = "exited"
                   /\ exit_code' = 0
                   /\ UNCHANGED message
              ELSE main_except(r.exc)
    /\ UNCHANGED <<url, nodes, foreign, num_requests, i, hostnames, successful_requests,
                   failed_requests, wire, served, result, in_flight, issued, notices,
                   interrupt>>

\* Ctrl-C anywhere else inside main()'s try block.
InterruptRun ==
    /\ pc \in {"loop", "tally", "analyze"}
    /\ interrupt' = [at |-> pc, issued |-> issued, failed |-> failed_requests]
    /\ main_except("KeyboardInterrupt")
    /\ UNCHANGED <<url, nodes, foreign, num_requests, i, hostnames, successful_requests,
                   failed_requests, wire, served, result, in_flight, issued, notices,
                   report>>

Next ==
    \/ Validate
    \/ IssueProbe
    \/ Serve
    \/ ForeignAnswer
    \/ NetworkFault
    \/ MakeRequestReturn
    \/ InterruptInFlight
    \/ Tally
    \/ ReturnResults
    \/ AnalyzeResults
    \/ InterruptRun

Spec == Init /\ [][Next]_vars

\* The same runs, with their request counts bounded apart.
InitFair ==
    /\ num_requests \in (-MaxNonPositive)..MaxFairRequests
    /\ url \in Routes
    /\ nodes = Nodes
    /\ foreign = ForeignAnswers
    /\ Start

\* Every step of the program is taken in the end, and every requests.get
\* ends: it is called with a timeout.
FairSpec == InitFair /\ [][Next]_vars /\ WF_vars(Next)

SpecProgress == InitProgress /\ [][Next]_vars

(***************************************************************************)
(* analyze_results called on its own, with any counts and any list.        *)
(***************************************************************************)
HostValues == {"node-a", "node-b", "unknown", JNull}

BoundedSeq(S, n) == UNION {[1..k -> S] : k \in 0..n}

InitAnalyze ==
    /\ hostnames \in BoundedSeq(HostValues, MaxLen)
    /\ successful_requests \in 0..MaxCount
    /\ failed_requests \in 0..MaxCount
    /\ num_requests = successful_requests + failed_requests
    /\ i = num_requests
    /\ issued = num_requests
    /\ url = "/api/ping"
    /\ nodes = Nodes
    /\ foreign = ForeignAnswers
    /\ pc = "analyze"
    /\ wire = Idle
    /\ served = NotServed
    /\ result = NoResult
    /\ in_flight = 0
    /\ notices = <<>>
    /\ report = NoReport
    /\ message = ""
    /\ exit_code = -1
    /\ interrupt = NoInterrupt

NextAnalyze == AnalyzeResults

SpecAnalyze == InitAnalyze /\ [][NextAnalyze]_vars

(***************************************************************************)
(* The claims.                                                             *)
(***************************************************************************)
Distinct(hs) == {hs[k] : k \in 1..Len(hs)}

InterruptMessage == "Load test interrupted by user"

ErrorMessage == "Error running load test"

\* run_load_test has returned to main().
RunReturned == pc = "analyze" \/ (pc = "exited" /\ report.exc # "idle")

\* C1: at every point of the run the hostnames list is as long as
\* successful_requests, and the counts analyze_results builds from it add up
\* to the number of successful probes.
C1_CountsSumToSuccesses ==
    /\ Len(hostnames) = successful_requests
    /\ (report.exc # "idle" /\ successful_requests > 0) =>
          SumOver(report.hostname_counter, DOMAIN report.hostname_counter)
              = successful_requests

C1_Witness ==
    /\ "per_node" \in report.printed
    /\ successful_requests >= 3
    /\ failed_requests >= 1
    /\ Cardinality(DOMAIN report.hostname_counter) = 2

\* C2, as amended: /api/ping answers 200 with message "pong" and a hostname
\* field that is the name the lookup returned, or "unknown" when the lookup
\* raised; the field is non-empty whenever the name returned is.
C2_PingAnswers ==
    (served.by = "service" /\ url = "/api/ping") =>
        /\ wire.exc = "none"
        /\ wire.status = 200
        /\ wire.body.json = "object"
        /\ DOMAIN wire.body.fields = {"message", "hostname"}
        /\ wire.body.fields["message"] = "pong"
        /\ wire.body.fields["hostname"] =
              (IF served.lookup.exc = "none" THEN served.lookup.name ELSE "unknown")
        /\ (served.lookup.exc # "none" \/ served.lookup.name # "") =>
              wire.body.fields["hostname"] # ""

C2_Witness ==
    /\ served.by = "service"
    /\ url = "/api/ping"
    /\ served.lookup.exc = "OSError"
    /\ wire.status = 200
    /\ wire.body.fields["hostname"] = "unknown"

\* C2, as claimed: /api/ping answers 200 with message "pong" and a hostname
\* field that is present and non-empty, whatever the lookup did.
C2_PingHostnameNonEmpty ==
    (served.by = "service" /\ url = "/api/ping") =>
        /\ wire.exc = "none"
        /\ wire.status = 200
        /\ wire.body.json = "object"
        /\ "message" \in DOMAIN wire.body.fields
        /\ wire.body.fields["message"] = "pong"
        /\ "hostname" \in DOMAIN wire.body.fields
        /\ wire.body.fields["hostname"] # ""
        /\ served.lookup.exc # "none" => wire.body.fields["hostname"] = "unknown"

\* C3: make_request returns ("error", False) for a network error, a timeout
\* and a status that is not 200; for a status-200 JSON object it returns the
\* hostname field, or "unknown" without one, and True; and no exception of
\* the probe reaches main()'s "except Exception".
C3_MakeRequestContract ==
    /\ pc = "tally" =>
          /\ wire.exc \in NetworkErrors => result = Result("error", FALSE)
          /\ (wire.exc = "none" /\ wire.status # 200) => result = Result("error", FALSE)
          /\ (wire.exc = "none" /\ wire.status = 200 /\ wire.body.json = "object") =>
                /\ result.exc = "none"
                /\ result.success
                /\ result.hostname =
                      (IF "hostname" \in DOMAIN wire.body.fields
                       THEN wire.body.fields["hostname"] ELSE "unknown")
    /\ message = ErrorMessage => report.exc # "idle"

C3_Witness ==
    /\ pc = "tally"
    /\ wire.exc = "Timeout"
    /\ result = Result("error", FALSE)

\* C4, as amended: a status-200 response whose body is no JSON, or JSON that
\* is no object, is a failed probe: make_request returns ("error", False).
C4_MalformedBodyFails ==
    (pc = "tally" /\ wire.exc = "none" /\ wire.status = 200
        /\ wire.body.json # "object") =>
        result = Result("error", FALSE)

C4_Witness ==
    /\ pc = "tally"
    /\ wire.exc = "none"
    /\ wire.status = 200
    /\ wire.body.json = "invalid"
    /\ result = Result("error", FALSE)

\* C4, as claimed: a status-200 response whose body is no JSON, or JSON that
\* is no object, is taken for one without hostname: make_request returns
\* ("unknown", True).
C4_MalformedBodyUnknown ==
    (pc = "tally" /\ wire.exc = "none" /\ wire.status = 200
        /\ wire.body.json # "object") =>
        result = Result("unknown", TRUE)

\* C5: with a request count of zero or less, main() exits with status 1
\* before any request: run_load_test and make_request are never reached.
C5_RejectedBeforeAnyRequest ==
    num_requests <= 0 =>
        /\ issued = 0
        /\ in_flight = 0
        /\ wire = Idle
        /\ report = NoReport
        /\ pc \in {"start", "exited"}
        /\ pc = "exited" =>
              /\ exit_code = 1
              /\ message = "Error: Number of requests must be positive"

C5_Witness ==
    /\ num_requests = 0
    /\ pc = "exited"
    /\ exit_code = 1

\* C6: analyze_results with no successful request divides by nothing,
\* reports a success rate of 0 and says there is nothing to analyze, with no
\* per-hostname percentage, whatever the failure count.
C6_ZeroSuccesses ==
    (pc = "exited" /\ successful_requests = 0) =>
        /\ report.exc = "none"
        /\ exit_code = 0
        /\ report.total_requests = failed_requests
        /\ report.success_rate.num = 0
        /\ report.success_rate.den # 0
        /\ report.printed = {"statistics", "no_successful_requests"}
        /\ DOMAIN report.percentages = {}

C6_Witness ==
    /\ pc = "exited"
    /\ successful_requests = 0
    /\ failed_requests = 0
    /\ "no_successful_requests" \in report.printed

\* C7: Ctrl-C at any point of the run, a probe in flight included, ends the
\* loop there: no further probe is issued, the interrupted probe is no
\* failure, there is no report, and main() prints the interrupt line and
\* exits with status 1.
C7_InterruptAborts ==
    interrupt.at # "none" =>
        /\ pc = "exited"
        /\ exit_code = 1
        /\ message = InterruptMessage
        /\ report = NoReport
        /\ issued = interrupt.issued
        /\ failed_requests = interrupt.failed
        /\ in_flight = 0

C7_Witness ==
    /\ interrupt.at = "inflight"
    /\ interrupt.issued >= 2
    /\ interrupt.failed >= 1
    /\ pc = "exited"
    /\ exit_code = 1

\* C8: the number of available nodes reported is the number of distinct
\* hostnames among the successful probes: the keys of the distribution are
\* those hostnames, each with a count of at least 1.
C8_AvailableNodes ==
    "available_nodes" \in report.printed =>
        /\ report.available_nodes = Cardinality(Distinct(hostnames))
        /\ report.available_nodes >= 1
        /\ DOMAIN report.hostname_counter = Distinct(hostnames)
        /\ \A x \in DOMAIN report.hostname_counter : report.hostname_counter[x] >= 1

C8_Witness ==
    /\ "available_nodes" \in report.printed
    /\ report.available_nodes = 2
    /\ successful_requests = 3

\* C9: run_load_test with n >= 1 issues its probes one at a time and at most
\* n of them; a failed probe adds one to the failures, a successful one adds
\* its hostname at the end of the list, and either way the loop moves on;
\* when it returns, n probes were issued and successes and failures add up
\* to n; and the run ends.
C9_Counts ==
    /\ in_flight \in {0, 1}
    /\ in_flight = 1 <=> pc = "inflight"
    /\ num_requests >= 1 => issued <= num_requests
    /\ (pc = "loop" /\ interrupt.at = "none") =>
          /\ issued = i
          /\ successful_requests + failed_requests = i
    /\ (RunReturned /\ num_requests >= 1) =>
          /\ issued = num_requests
          /\ successful_requests + failed_requests = num_requests
          /\ Len(hostnames) = successful_requests

C9_Step ==
    (pc = "tally" /\ pc' = "loop") =>
        /\ i' = i + 1
        /\ issued' = issued
        /\ IF result.success
           THEN /\ hostnames' = Append(hostnames, result.hostname)
                /\ successful_requests' = successful_requests + 1
                /\ failed_requests' = failed_requests
           ELSE /\ hostnames' = hostnames
                /\ successful_requests' = successful_requests
                /\ failed_requests' = failed_requests + 1

C9_SequentialRun == [](C9_Counts) /\ [][C9_Step]_vars /\ <>(pc = "exited")

C9_Witness ==
    /\ pc = "exited"
    /\ exit_code = 0
    /\ interrupt.at = "none"
    /\ num_requests = MaxFairRequests
    /\ failed_requests = 1
    /\ Len(hostnames) >= 2
    /\ hostnames[1] # hostnames[2]

\* The k of the notices printed by the time m probes were issued.
RECURSIVE NoticesUpTo(_)
NoticesUpTo(m) ==
    IF m <= 0 THEN <<>>
    ELSE IF m = 1 \/ m % 10 = 0 THEN Append(NoticesUpTo(m - 1), m)
    ELSE NoticesUpTo(m - 1)

\* C10, as amended: the notice k/n is printed for k = 1 and for every
\* multiple of 10 up to n, and for no other k, at the start of the k-th
\* iteration: right before the k-th request is issued, when k - 1 requests
\* have completed.
C10_NoticeBeforeRequest ==
    /\ [](notices = NoticesUpTo(issued))
    /\ [][notices' # notices =>
            /\ pc = "loop"
            /\ pc' = "inflight"
            /\ issued' = issued + 1
            /\ notices' = Append(notices, issued')
            /\ successful_requests + failed_requests = issued' - 1
            /\ UNCHANGED <<successful_requests, failed_requests>>]_vars

C10_Witness ==
    /\ Len(notices) = 3
    /\ notices[2] = 10
    /\ notices[3] = 20
    /\ num_requests > 20

\* C10, as claimed: a notice k/n is printed only for k = 1 and the multiples
\* of 10, and only once the k-th request has completed.
C10_NoticeAfterCompletion ==
    \A k \in 1..Len(notices) :
        /\ notices[k] = 1 \/ notices[k] % 10 = 0
        /\ notices[k] <= successful_requests + failed_requests

====
